---- MODULE Spec2Model ----
(***************************************************************************)
(* Model of the multiplayer manager of src/src/math.js                     *)
(* (createMultiplayerManager): the world-record arbitration that init()    *)
(* runs against the "worlds" table, and the throttled position broadcast.  *)
(*                                                                         *)
(* Every peer is one manager instance.  init() is an async function: it is *)
(* cut at its awaits, so that the store requests of several peers          *)
(* interleave.  The store executes one request at a time.                  *)
(***************************************************************************)
EXTENDS Integers, FiniteSets, Sequences, TLC

\* ---------------------------------------------------------------- bounds
NumPeers == 2
NumSeeds == 2
MaxFaults == 1
MaxCalls == 4
MaxElapsed == 150
NumRemotes == 1
MaxEvents == 3
MaxInits == 2
MaxLeaves == 2
MaxUpdates == 2
HeartbeatHorizon == 320000
MaxGenerators == 2
MaxDraws == 4
MaxLookups == 4
MaxTeleports == 1
MaxWaits == 3
MaxRestarts == 1
MaxIdentElapsed == 40000
MaxAuthElapsed == 8000

\* ------------------------------------------------------------- constants
BROADCAST_THROTTLE_MS == 50
\* Date.now() is milliseconds since 1970: far above the throttle interval
\* and the staleness threshold.
EpochNow == 1000000

Peers == 1..NumPeers
Seeds == 0..(NumSeeds - 1)
\* owner_player_id = null
NoOwner == 0
\* worldSeed = null
NoSeed == -1

\* No row for ROOM_ID in "worlds" / data: null of a query.
NoWorld == [exists |-> FALSE, seed |-> NoSeed, owner |-> NoOwner]
World(s, o) == [exists |-> TRUE, seed |-> s, owner |-> o]

\* The rows the table may hold for the room before any of these init() runs:
\* none, a row nobody owns, a row owned by an earlier session of some id.
InitialStores == {NoWorld} \cup {World(s, o) : s \in Seeds, o \in {NoOwner} \cup Peers}

VARIABLES
  store,              \* the room's row of "worlds"
  pc,                 \* where each peer's init() stands
  channel,            \* channel # null
  tracked,            \* presence as the realtime server holds it
  otherPlayers,       \* otherPlayers.length of the roster snapshot
  existingWorld,      \* data of the first read
  fetchError,         \* error of the first read: "none", "PGRST116", "other"
  worldSeed,
  isHost,
  insertError,        \* error of the insert: "none", "conflict", "other"
  raceWorld,          \* data of the re-read
  returned,           \* what init() returned / passed to onWorldSeedReceived
  genSeed,            \* what generateWorldSeed() gave this peer
  writes,             \* write requests (insert, update) each peer sent
  rereadDone,         \* the peer ran the re-read after a failed insert
  faults,             \* store requests that failed for another reason
  store0,             \* the row before any init()
  now,                \* Date.now()
  lastBroadcastTime,
  sent,               \* timestamps of the player_move payloads on the channel
  dropped,            \* broadcastPosition calls that returned at the throttle test
  calls,              \* broadcastPosition calls made
  \* --- presence handlers of one manager
  pstate,             \* channel.presenceState(): key -> first presence entry
  spawnedPlayers,     \* the Set of init()
  delayedPending,     \* the 500 ms timeout of the delayed sync check is pending
  ev,                 \* the event the last step handled
  fired,              \* the game callbacks the last step invoked
  events,             \* presence events and timer callbacks handled so far
  sinceLeave,         \* onPlayerJoin calls per key since its last leave event
  skipped,            \* keys a handler skipped as stale since their last leave event
  left,               \* keys reported by onPlayerJoin and then by a leave event
  \* --- life cycle of one manager: init() and leave() calls, timers
  loggedIn,           \* loadCustomizationFromDb() returns a row
  transportUp,        \* the realtime server confirms subscriptions
  ipc,                \* where each init() call stands
  lpc,                \* where each leave() call stands
  channelRef,         \* the manager's variable channel: 0 (null) or a channel
  playerId,           \* the manager's variable playerId, 0 before the first init()
  status,             \* last status each channel's subscribe callback received
  untracks,           \* channel.untrack() calls made on each channel
  removes,            \* supabase.removeChannel(...) calls made for each channel
  intervals,          \* heartbeat intervals set and never cleared
  timeouts,           \* delayed-check timeouts set and not yet fired
  leavesDone,         \* leave() calls that have returned
  lateTimers,         \* kinds of timer callbacks run after a leave() that followed their creation
  timerErrors,        \* kinds of timer callbacks that threw
  ret,                \* what each init() call returned
  \* --- a remote peer's publications, as they reach this manager
  hbJoinedAt,         \* const now of the peer's SUBSCRIBED callback, 0 before it
  hbNext,             \* when the peer's heartbeat interval fires next, 0 if not set
  peerColor,          \* the peer's variable playerColor
  updates,            \* updatePlayerColor calls of the peer
  \* --- identity of a manager and what it publishes and stores
  playerName,
  playerColor,
  playerAccessories,
  localStorage,       \* the browser's localStorage: playerId, playerName, mochiColor, mochiAccessories
  published,          \* payload of the manager's last channel.track(...)
  prior,              \* identity of the manager of the previous page load
  restarts,           \* page loads after the first
  \* --- teleport broadcasts
  teleHandlers,       \* per peer: channel # null, onTeleportRequest # null, onTeleportResponse # null
  teleQueue,          \* broadcast messages on their way to a peer
  teleFired,          \* per peer: the last teleport message received and the callbacks it invoked
  teleSent,           \* teleport broadcasts sent so far
  \* --- random generators (math.js)
  generators,         \* the generators createPositionRandom returned
  seededRandom,       \* the global generator: Math.random or a mulberry32 state
  globalWorldSeed,
  draws,              \* numbers drawn so far, from any generator
  \* --- biomes (constants.js)
  BIOME_POOL,
  biomeCache,
  lookup,             \* the last getBiomeForCell call and what it returned
  lookups,            \* getBiomeForCell calls so far
  \* --- ShellBridge.waitForAuth (constants.js)
  isAuthenticated,
  authPromise,        \* null, or the state of the one promise: pending / user / null
  authResolve,        \* authResolve # null
  authTimers,         \* due times of the timeouts waitForAuth has set
  waits,              \* the waitForAuth calls made and what they resolved with
  authAt              \* when _isAuthenticated became true, 0 before

arbVars == <<store, pc, channel, tracked, otherPlayers, existingWorld,
             fetchError, worldSeed, isHost, insertError, raceWorld, returned,
             genSeed, writes, rereadDone, faults, store0>>
throttleVars == <<now, lastBroadcastTime, sent, dropped, calls>>
sessVars == <<loggedIn, transportUp, ipc, lpc, channelRef, playerId, status,
              untracks, removes, intervals, timeouts, leavesDone,
              lateTimers, timerErrors, ret>>
beatVars == <<hbJoinedAt, hbNext, peerColor, updates>>
identVars == <<playerName, playerColor, playerAccessories, localStorage, published, prior, restarts>>
teleVars == <<teleHandlers, teleQueue, teleFired, teleSent>>
randVars == <<generators, seededRandom, globalWorldSeed, draws>>
biomeVars == <<BIOME_POOL, biomeCache, lookup, lookups>>
authVars == <<isAuthenticated, authPromise, authResolve, authTimers, waits, authAt>>
restVars == <<identVars, teleVars, randVars, biomeVars, authVars>>
presVars == <<pstate, spawnedPlayers, delayedPending, ev, fired, events, sinceLeave, skipped, left>>
vars == <<arbVars, throttleVars, presVars, sessVars, beatVars, restVars>>

\* ------------------------------------------------------- the record store
\* .insert({id, seed, owner_player_id, name}): id is the key, a second row is
\* rejected.
InsertRejected(st) == st.exists

\* As an upsert: the row is written whether or not one exists.
InsertRowUpsert(st, s, o) == World(s, o)

InsertRow(st, s, o) == IF InsertRejected(st) THEN st ELSE World(s, o)

\* .update({ owner_player_id: playerId }).eq("id", ROOM_ID): the only filter
\* is the id, so the row's owner is overwritten whatever it was.
UpdateOwner(st, p) == IF st.exists THEN [st EXCEPT !.owner = p] ELSE st

\* ------------------------------------------------ init(): local decisions
\* Without the test of the roster: an unowned row is claimed by whoever reads it.
ClaimsAsHostUnowned(others, ew) == ew.owner = NoOwner

\* if (otherPlayers.length === 0 && !existingWorld.owner_player_id)
ClaimsAsHost(others, ew) == others = 0 /\ ew.owner = NoOwner

\* isHost = existingWorld.owner_player_id === playerId
JoinsAsHost(ew, p) == ew.owner = p

\* Clearing the seed when the re-read gives no row.
SeedAfterRereadCleared(rw, ws) == IF rw.exists THEN rw.seed ELSE NoSeed

\* Without isHost = false in the fallback.
HostAfterRereadKept(rw, h) == h

\* if (raceWorld) { worldSeed = raceWorld.seed; isHost = false }
SeedAfterReread(rw, ws) == IF rw.exists THEN rw.seed ELSE ws

HostAfterReread(rw, h) == IF rw.exists THEN FALSE ELSE h

\* ------------------------------------------------------- presence entries
\* const STALE_THRESHOLD = 300000 of the sync handler
STALE_THRESHOLD == 300000
\* setInterval(..., 20000)
HEARTBEAT_MS == 20000
\* the literal of the join handler
JoinStaleMs == 300000
\* const STALE_THRESHOLD = 300000 of the delayed sync check
DelayedStaleThreshold == 300000

\* The manager's own presence key (playerId); the other keys are remote peers.
LocalKey == 0
Remotes == 1..NumRemotes
Keys == {LocalKey} \cup Remotes
\* playerColor before and after a change; the handlers only pass it on.
Colors == {1, 2}

\* state[pid]?.[0]: a missing value and 0 are both falsy, so both are 0 here.
NoEntry == [present |-> FALSE, joinedAt |-> 0, lastActive |-> 0, color |-> 0]
Entry(ja, la, c) == [present |-> TRUE, joinedAt |-> ja, lastActive |-> la, color |-> c]

\* Timestamps an entry may carry at time t: none, just beyond the threshold,
\* exactly at it, current.
Stamps(t) == {0, t - STALE_THRESHOLD - 1, t - STALE_THRESHOLD, t}
JoinStamps(t) == {0, t - STALE_THRESHOLD - 1, t}

\* What a remote peer (any client of the channel) may have tracked, and what
\* this manager tracks for itself.
\* channel.track({..., playerColor: newColor, joinedAt: Date.now()}) of
\* updatePlayerColor(newColor) at time t: no lastActive.
UpdatePlayerColor(t, newColor) == Entry(t, 0, newColor)

RemoteEntries(t) ==
  {Entry(ja, la, 1) : ja \in JoinStamps(t), la \in Stamps(t)} \cup {UpdatePlayerColor(t, 2)}
OwnEntry(t) == Entry(t, t, 1)
Entries(k, t) == IF k = LocalKey THEN {OwnEntry(t)} ELSE RemoteEntries(t)

NoEvent == [kind |-> "none", key |-> LocalKey]

\* The presence variables while no presence event is delivered.
PresIdle ==
  /\ pstate = [k \in Keys |-> NoEntry]
  /\ spawnedPlayers = {}
  /\ delayedPending = FALSE
  /\ ev = NoEvent
  /\ fired = {}
  /\ events = 0
  /\ sinceLeave = [k \in Keys |-> 0]
  /\ skipped = {}
  /\ left = {}

\* init() calls and the channels they create (call i creates channel i),
\* leave() calls.
InitCalls == 1..MaxInits
LeaveCalls == 1..MaxLeaves
NoChannel == 0
\* data.player_id of the player_customization row
DbPlayerId == MaxInits + 1
\* generatePlayerId() in call i: a new id each time
GeneratePlayerId(i) == i
NoReturn == [done |-> FALSE, playerId |-> 0]
ErrorStatuses == {"CHANNEL_ERROR", "TIMED_OUT", "CLOSED"}

\* No remote peer is modelled as publishing.
BeatIdle == hbJoinedAt = 0 /\ hbNext = 0 /\ peerColor = 1 /\ updates = 0

\* A JavaScript value that is null or an array of accessory ids.
JsNull == [null |-> TRUE, ids |-> <<>>]
JsArray(ids) == [null |-> FALSE, ids |-> ids]

\* JSON.stringify of an array of ids and JSON.parse of such a text, the
\* text as its sequence of tokens; no text is the empty sequence.
JsonStringify(a) == <<"[">> \o a.ids \o <<"]">>
JsonParse(text) == JsArray(SubSeq(text, 2, Len(text) - 1))

\* let playerName = null; let playerColor = null
NoName == "null"
NoColor == 0
\* localStorage without any of the four keys
EmptyStorage == [playerId |-> 0, playerName |-> NoName, mochiColor |-> NoColor,
                 mochiAccessories |-> <<>>]
NoPayload == [tracked |-> FALSE]
NoIdentity == [known |-> FALSE]

\* The manager's identity variables as createMultiplayerManager sets them.
IdentIdle ==
  /\ playerName = NoName
  /\ playerColor = NoColor
  /\ playerAccessories = JsArray(<<>>)
  /\ localStorage = EmptyStorage
  /\ published = NoPayload
  /\ prior = NoIdentity
  /\ restarts = 0


\* Three peers of one room: for any message a sender, the addressed peer and
\* a bystander.
TelePeers == {1, 2, 3}
\* An id no peer of the room has.
UnknownPlayerId == 0
TeleTargets == TelePeers \cup {UnknownPlayerId}
TeleEvents == {"teleport_request", "teleport_response"}

\* let channel = null; let onTeleportRequest = null; let onTeleportResponse = null
NoTeleManager == [channel |-> FALSE, teleport_request |-> FALSE, teleport_response |-> FALSE]
NoMessage == [event |-> "none", fromPlayerId |-> UnknownPlayerId, targetPlayerId |-> UnknownPlayerId]
NoDelivery == [message |-> NoMessage, callbacks |-> {}]

\* No peer has a channel or a teleport callback; nothing was sent.
TeleIdle ==
  /\ teleHandlers = [p \in TelePeers |-> NoTeleManager]
  /\ teleQueue = {}
  /\ teleFired = [p \in TelePeers |-> NoDelivery]
  /\ teleSent = 0

\* let seededRandom = Math.random; let globalWorldSeed = null
MathRandom == [seeded |-> FALSE, state |-> <<0, 0>>]

RandIdle ==
  /\ generators = <<>>
  /\ seededRandom = MathRandom
  /\ globalWorldSeed = NoSeed
  /\ draws = 0

\* rebuildBiomePool(DEFAULT_BIOME_WEIGHTS): forest 3, sakura 2, autumn 2,
\* desert 1, snow 1
DefaultPool == <<"forest", "forest", "forest", "sakura", "sakura", "autumn", "autumn",
                 "desert", "snow">>
NoLookup == [made |-> FALSE]

BiomeIdle ==
  /\ BIOME_POOL = DefaultPool
  /\ biomeCache = {}
  /\ lookup = NoLookup
  /\ lookups = 0

\* let authResolve = null; let authPromise = null; _isAuthenticated = false
AuthIdle ==
  /\ isAuthenticated = FALSE
  /\ authPromise = "null"
  /\ authResolve = FALSE
  /\ authTimers = {}
  /\ waits = <<>>
  /\ authAt = 0

RestIdle == IdentIdle /\ TeleIdle /\ RandIdle /\ BiomeIdle /\ AuthIdle

\* A guest (no player_customization row) on a transport that confirms.
EnvDefault == loggedIn = FALSE /\ transportUp = TRUE

\* The life-cycle variables before any init() or leave() call.
SessIdle ==
  /\ ipc = [i \in InitCalls |-> "idle"]
  /\ lpc = [j \in LeaveCalls |-> "idle"]
  /\ channelRef = NoChannel
  /\ playerId = 0
  /\ status = [c \in InitCalls |-> "none"]
  /\ untracks = [c \in InitCalls |-> 0]
  /\ removes = [c \in InitCalls |-> 0]
  /\ intervals = {}
  /\ timeouts = {}
  /\ leavesDone = 0
  /\ lateTimers = {}
  /\ timerErrors = {}
  /\ ret = [i \in InitCalls |-> NoReturn]

\* ------------------------------------------------------------------ init
ArbInit ==
  /\ store \in InitialStores
  /\ store0 = store
  /\ pc = [p \in Peers |-> "idle"]
  /\ channel = [p \in Peers |-> FALSE]
  /\ tracked = {}
  /\ otherPlayers = [p \in Peers |-> 0]
  /\ existingWorld = [p \in Peers |-> NoWorld]
  /\ fetchError = [p \in Peers |-> "none"]
  /\ worldSeed = [p \in Peers |-> NoSeed]
  /\ isHost = [p \in Peers |-> FALSE]
  /\ insertError = [p \in Peers |-> "none"]
  /\ raceWorld = [p \in Peers |-> NoWorld]
  /\ returned = [p \in Peers |-> [done |-> FALSE, worldSeed |-> NoSeed, isHost |-> FALSE]]
  /\ genSeed = [p \in Peers |-> NoSeed]
  /\ writes = [p \in Peers |-> 0]
  /\ rereadDone = [p \in Peers |-> FALSE]
  /\ faults = 0

ThrottleInit ==
  /\ now = EpochNow
  /\ lastBroadcastTime = [p \in Peers |-> 0]
  /\ sent = [p \in Peers |-> <<>>]
  /\ dropped = [p \in Peers |-> 0]
  /\ calls = [p \in Peers |-> 0]

Init == ArbInit /\ ThrottleInit /\ PresIdle /\ SessIdle /\ EnvDefault /\ BeatIdle /\ RestIdle

\* init() up to the 300 ms wait: identity, supabase.channel(...), the handlers,
\* the subscribe, and in its SUBSCRIBED callback channel.track(...), which puts
\* the peer into the room's presence on the realtime server.
Start(p) ==
  /\ pc[p] = "idle"
  /\ channel' = [channel EXCEPT ![p] = TRUE]
  /\ tracked' = tracked \cup {p}
  /\ pc' = [pc EXCEPT ![p] = "waiting"]
  /\ UNCHANGED <<store, otherPlayers, existingWorld, fetchError,
                 worldSeed, isHost, insertError, raceWorld, returned, genSeed,
                 writes, rereadDone, faults, store0, throttleVars, presVars, sessVars, beatVars, restVars>>

\* What channel.presenceState() may hold of the other peers when it is read:
\* the local mirror follows the server's presence with a delay, so it holds
\* the others that were tracked at some earlier moment, from none to all.
RosterCounts(p) == 0..Cardinality(tracked \ {p})

\* After the wait: the roster snapshot, then the read request is sent.
Snapshot(p) ==
  /\ pc[p] = "waiting"
  /\ \E n \in RosterCounts(p) : otherPlayers' = [otherPlayers EXCEPT ![p] = n]
  /\ pc' = [pc EXCEPT ![p] = "fetch"]
  /\ UNCHANGED <<store, channel, tracked, existingWorld, fetchError,
                 worldSeed, isHost, insertError, raceWorld, returned, genSeed,
                 writes, rereadDone, faults, store0, throttleVars, presVars, sessVars, beatVars, restVars>>

\* What the code does with the read's result, up to the next await.
AfterFetch(p, ew, g) ==
  /\ existingWorld' = [existingWorld EXCEPT ![p] = ew]
  /\ IF ew.exists
       THEN /\ worldSeed' = [worldSeed EXCEPT ![p] = ew.seed]
            /\ genSeed' = genSeed
            /\ IF ClaimsAsHost(otherPlayers[p], ew)
                 THEN /\ isHost' = [isHost EXCEPT ![p] = TRUE]
                      /\ pc' = [pc EXCEPT ![p] = "claim"]
                 ELSE /\ isHost' = [isHost EXCEPT ![p] = JoinsAsHost(ew, p)]
                      /\ pc' = [pc EXCEPT ![p] = "notify"]
       ELSE /\ worldSeed' = [worldSeed EXCEPT ![p] = g]
            /\ genSeed' = [genSeed EXCEPT ![p] = g]
            /\ isHost' = [isHost EXCEPT ![p] = TRUE]
            /\ pc' = [pc EXCEPT ![p] = "insert"]

\* The store answers the read: the row, or no row (PGRST116).
FetchWorld(p) ==
  /\ pc[p] = "fetch"
  /\ fetchError' = [fetchError EXCEPT ![p] = IF store.exists THEN "none" ELSE "PGRST116"]
  /\ \E g \in Seeds : AfterFetch(p, store, g)
  /\ UNCHANGED <<store, channel, tracked, otherPlayers, insertError,
                 raceWorld, returned, writes, rereadDone, faults, store0,
                 throttleVars, presVars, sessVars, beatVars, restVars>>

\* The read fails for another reason: data is null, the error is only logged.
FetchWorldError(p) ==
  /\ pc[p] = "fetch"
  /\ faults < MaxFaults
  /\ faults' = faults + 1
  /\ fetchError' = [fetchError EXCEPT ![p] = "other"]
  /\ \E g \in Seeds : AfterFetch(p, NoWorld, g)
  /\ UNCHANGED <<store, channel, tracked, otherPlayers, insertError,
                 raceWorld, returned, writes, rereadDone, store0, throttleVars, presVars, sessVars, beatVars, restVars>>

\* The store executes the owner update; its result is not looked at.
ClaimUpdate(p) ==
  /\ pc[p] = "claim"
  /\ store' = UpdateOwner(store, p)
  /\ writes' = [writes EXCEPT ![p] = @ + 1]
  /\ pc' = [pc EXCEPT ![p] = "notify"]
  /\ UNCHANGED <<channel, tracked, otherPlayers, existingWorld, fetchError,
                 worldSeed, isHost, insertError, raceWorld, returned, genSeed,
                 rereadDone, faults, store0, throttleVars, presVars, sessVars, beatVars, restVars>>

\* The owner update fails in the store: nothing is written, init() goes on.
ClaimUpdateError(p) ==
  /\ pc[p] = "claim"
  /\ faults < MaxFaults
  /\ faults' = faults + 1
  /\ writes' = [writes EXCEPT ![p] = @ + 1]
  /\ pc' = [pc EXCEPT ![p] = "notify"]
  /\ UNCHANGED <<store, channel, tracked, otherPlayers, existingWorld,
                 fetchError, worldSeed, isHost, insertError, raceWorld, returned,
                 genSeed, rereadDone, store0, throttleVars, presVars, sessVars, beatVars, restVars>>

\* The store executes the insert: accepted, or rejected because the row exists.
InsertWorld(p) ==
  /\ pc[p] = "insert"
  /\ store' = InsertRow(store, worldSeed[p], p)
  /\ insertError' = [insertError EXCEPT ![p] = IF InsertRejected(store) THEN "conflict" ELSE "none"]
  /\ writes' = [writes EXCEPT ![p] = @ + 1]
  /\ pc' = [pc EXCEPT ![p] = IF InsertRejected(store) THEN "reread" ELSE "notify"]
  /\ UNCHANGED <<channel, tracked, otherPlayers, existingWorld, fetchError,
                 worldSeed, isHost, raceWorld, returned, genSeed, rereadDone,
                 faults, store0, throttleVars, presVars, sessVars, beatVars, restVars>>

\* The insert fails for another reason: the code takes it for the race.
InsertWorldError(p) ==
  /\ pc[p] = "insert"
  /\ faults < MaxFaults
  /\ faults' = faults + 1
  /\ insertError' = [insertError EXCEPT ![p] = "other"]
  /\ writes' = [writes EXCEPT ![p] = @ + 1]
  /\ pc' = [pc EXCEPT ![p] = "reread"]
  /\ UNCHANGED <<store, channel, tracked, otherPlayers, existingWorld,
                 fetchError, worldSeed, isHost, raceWorld, returned, genSeed,
                 rereadDone, store0, throttleVars, presVars, sessVars, beatVars, restVars>>

\* What the code does with the re-read's result.
AfterReread(p, rw) ==
  /\ raceWorld' = [raceWorld EXCEPT ![p] = rw]
  /\ worldSeed' = [worldSeed EXCEPT ![p] = SeedAfterReread(rw, worldSeed[p])]
  /\ isHost' = [isHost EXCEPT ![p] = HostAfterReread(rw, isHost[p])]
  /\ rereadDone' = [rereadDone EXCEPT ![p] = TRUE]
  /\ pc' = [pc EXCEPT ![p] = "notify"]

\* The store answers the re-read.
Reread(p) ==
  /\ pc[p] = "reread"
  /\ AfterReread(p, store)
  /\ UNCHANGED <<store, channel, tracked, otherPlayers, existingWorld,
                 fetchError, insertError, returned, genSeed, writes, faults,
                 store0, throttleVars, presVars, sessVars, beatVars, restVars>>

\* The re-read fails: data is null.
RereadError(p) ==
  /\ pc[p] = "reread"
  /\ faults < MaxFaults
  /\ faults' = faults + 1
  /\ AfterReread(p, NoWorld)
  /\ UNCHANGED <<store, channel, tracked, otherPlayers, existingWorld,
                 fetchError, insertError, returned, genSeed, writes, store0,
                 throttleVars, presVars, sessVars, beatVars, restVars>>

\* onWorldSeedReceived(worldSeed) and the return of init().
Notify(p) ==
  /\ pc[p] = "notify"
  /\ returned' = [returned EXCEPT ![p] =
                    [done |-> TRUE, worldSeed |-> worldSeed[p], isHost |-> isHost[p]]]
  /\ pc' = [pc EXCEPT ![p] = "done"]
  /\ UNCHANGED <<store, channel, tracked, otherPlayers, existingWorld,
                 fetchError, worldSeed, isHost, insertError, raceWorld, genSeed,
                 writes, rereadDone, faults, store0, throttleVars, presVars, sessVars, beatVars, restVars>>

InitStep(p) ==
  \/ Start(p)
  \/ Snapshot(p)
  \/ FetchWorld(p)
  \/ FetchWorldError(p)
  \/ ClaimUpdate(p)
  \/ ClaimUpdateError(p)
  \/ InsertWorld(p)
  \/ InsertWorldError(p)
  \/ Reread(p)
  \/ RereadError(p)
  \/ Notify(p)

Next == \E p \in Peers : InitStep(p)

Spec == Init /\ [][Next]_vars

\* ---------------------------------------------------- broadcastPosition
\* With <= for <: a call exactly one interval after the last send is dropped.
ThrottledInclusive(t, last) == t - last <= BROADCAST_THROTTLE_MS

\* if (now - lastBroadcastTime < BROADCAST_THROTTLE_MS) return;
Throttled(t, last) == t - last < BROADCAST_THROTTLE_MS

\* One call of broadcastPosition(...) at the time `now`.
BroadcastPosition(p) ==
  /\ calls[p] < MaxCalls
  /\ calls' = [calls EXCEPT ![p] = @ + 1]
  /\ IF ~channel[p]
       THEN UNCHANGED <<lastBroadcastTime, sent, dropped>>
       ELSE IF Throttled(now, lastBroadcastTime[p])
              THEN /\ dropped' = [dropped EXCEPT ![p] = @ + 1]
                   /\ UNCHANGED <<lastBroadcastTime, sent>>
              ELSE /\ lastBroadcastTime' = [lastBroadcastTime EXCEPT ![p] = now]
                   /\ sent' = [sent EXCEPT ![p] = Append(@, now)]
                   /\ UNCHANGED dropped
  /\ UNCHANGED <<arbVars, now, presVars, sessVars, beatVars, restVars>>

\* Time passes between two calls (the clock does not go back).
TickSteps == {49, 50}

Tick(d) ==
  /\ now + d <= EpochNow + MaxElapsed
  /\ now' = now + d
  /\ UNCHANGED <<arbVars, lastBroadcastTime, sent, dropped, calls, presVars, sessVars, beatVars, restVars>>

\* One manager: its channel is opened by init(), positions are broadcast at
\* any time before and after.
ThrottlePeers == {1}

ThrottleStart == ArbInit /\ store = NoWorld /\ ThrottleInit /\ PresIdle /\ SessIdle /\ EnvDefault /\ BeatIdle /\ RestIdle

NextThrottle ==
  \/ \E p \in ThrottlePeers : Start(p)
  \/ \E p \in ThrottlePeers : BroadcastPosition(p)
  \/ \E d \in TickSteps : Tick(d)

SpecThrottle == ThrottleStart /\ [][NextThrottle]_vars

\* ------------------------------------------------------ presence handlers
\* Sync handler without its stale test.
SyncStaleNever(e, t) == FALSE

\* Sync handler testing joinedAt alone.
SyncStaleByJoinedAt(e, t) == t - e.joinedAt > STALE_THRESHOLD

\* Sync handler: joinedAt = presenceData?.joinedAt || 0;
\* lastActive = presenceData?.lastActive || joinedAt;
\* now - lastActive > STALE_THRESHOLD
SyncStale(e, t) ==
  LET joinedAt == IF e.joinedAt # 0 THEN e.joinedAt ELSE 0
      lastActive == IF e.lastActive # 0 THEN e.lastActive ELSE joinedAt
  IN t - lastActive > STALE_THRESHOLD

\* Join handler: lastActive = presence?.lastActive || presence?.joinedAt || 0;
\* now - lastActive > 300000
JoinStale(e, t) ==
  LET lastActive == IF e.lastActive # 0 THEN e.lastActive
                    ELSE IF e.joinedAt # 0 THEN e.joinedAt ELSE 0
  IN t - lastActive > JoinStaleMs

\* Delayed check: lastActive = presenceData?.lastActive || presenceData?.joinedAt || 0;
\* now - lastActive > STALE_THRESHOLD
DelayedStale(e, t) ==
  LET lastActive == IF e.lastActive # 0 THEN e.lastActive
                    ELSE IF e.joinedAt # 0 THEN e.joinedAt ELSE 0
  IN t - lastActive > DelayedStaleThreshold

\* Sync handler taking every peer for a new one.
SyncIsNewAlways(pid, sp) == TRUE

\* Join handler without its look at the spawned set.
JoinConsidersUnspawned(key, sp) == key # LocalKey

\* Sync handler: if (!spawnedPlayers.has(pid)) spawn, else presence update.
SyncIsNew(pid, sp) == pid \notin sp

\* Join handler: if (key !== playerId && !spawnedPlayers.has(key))
JoinConsiders(key, sp) == key # LocalKey /\ key \notin sp

\* Delayed check: if (pid !== playerId && !spawnedPlayers.has(pid))
DelayedConsiders(pid, sp) == pid # LocalKey /\ pid \notin sp

\* Leave handler that keeps the key in the set.
LeaveKeepsSpawned(sp, key) == sp

\* Leave handler: spawnedPlayers.delete(key)
LeaveSpawned(sp, key) == sp \ {key}

Callback(cb, k, e) == [cb |-> cb, key |-> k, entry |-> e]
PresentKeys == {k \in Keys : pstate[k].present}

\* The transport changes the local presence state: a peer (or this manager
\* itself) tracks or re-tracks an entry.
PresenceSet(k, e) ==
  /\ events < MaxEvents
  /\ pstate[k] # e
  /\ pstate' = [pstate EXCEPT ![k] = e]
  /\ ev' = NoEvent
  /\ fired' = {}
  /\ UNCHANGED <<spawnedPlayers, delayedPending, events, sinceLeave, skipped, left, arbVars, throttleVars, sessVars, beatVars, restVars>>

\* The transport drops a key from the local presence state.
PresenceRemove(k) ==
  /\ events < MaxEvents
  /\ pstate[k].present
  /\ pstate' = [pstate EXCEPT ![k] = NoEntry]
  /\ ev' = NoEvent
  /\ fired' = {}
  /\ UNCHANGED <<spawnedPlayers, delayedPending, events, sinceLeave, skipped, left, arbVars, throttleVars, sessVars, beatVars, restVars>>

\* channel.on("presence", { event: "sync" }, ...)
OnSync ==
  LET fresh == {pid \in PresentKeys \ {LocalKey} : ~SyncStale(pstate[pid], now)}
      joined == {pid \in fresh : SyncIsNew(pid, spawnedPlayers)}
      updated == fresh \ joined
  IN /\ events < MaxEvents
     /\ events' = events + 1
     /\ ev' = [kind |-> "sync", key |-> LocalKey]
     /\ spawnedPlayers' = spawnedPlayers \cup joined
     /\ fired' = {Callback("join", pid, pstate[pid]) : pid \in joined}
                    \cup {Callback("update", pid, pstate[pid]) : pid \in updated}
     /\ sinceLeave' = [k \in Keys |-> IF k \in joined THEN sinceLeave[k] + 1 ELSE sinceLeave[k]]
     /\ skipped' = skipped \cup ((PresentKeys \ {LocalKey}) \ (fresh \cup spawnedPlayers))
     /\ UNCHANGED <<pstate, delayedPending, left, arbVars, throttleVars, sessVars, beatVars, restVars>>

\* channel.on("presence", { event: "join" }, ({ key, newPresences }) => ...)
\* newPresences[0] is the entry the transport has just put into the state
\* (undefined, here NoEntry, if the key holds none).
OnJoin(key) ==
  LET presence == pstate[key]
      spawns == JoinConsiders(key, spawnedPlayers) /\ ~JoinStale(presence, now)
  IN /\ events < MaxEvents
     /\ events' = events + 1
     /\ ev' = [kind |-> "join", key |-> key]
     /\ spawnedPlayers' = IF spawns THEN spawnedPlayers \cup {key} ELSE spawnedPlayers
     /\ fired' = IF spawns THEN {Callback("join", key, presence)} ELSE {}
     /\ sinceLeave' = IF spawns THEN [sinceLeave EXCEPT ![key] = @ + 1] ELSE sinceLeave
     /\ skipped' = IF JoinConsiders(key, spawnedPlayers) /\ ~spawns
                      THEN skipped \cup {key} ELSE skipped
     /\ UNCHANGED <<pstate, delayedPending, left, arbVars, throttleVars, sessVars, beatVars, restVars>>

\* channel.on("presence", { event: "leave" }, async ({ key }) => ...)
OnLeave(key) ==
  /\ events < MaxEvents
  /\ events' = events + 1
  /\ ev' = [kind |-> "leave", key |-> key]
  /\ spawnedPlayers' = LeaveSpawned(spawnedPlayers, key)
  /\ fired' = IF key # LocalKey THEN {Callback("leave", key, NoEntry)} ELSE {}
  /\ sinceLeave' = [sinceLeave EXCEPT ![key] = 0]
  /\ skipped' = skipped \ {key}
  /\ left' = IF sinceLeave[key] > 0 THEN left \cup {key} ELSE left
  /\ UNCHANGED <<pstate, delayedPending, arbVars, throttleVars, sessVars, beatVars, restVars>>

\* The callback of setTimeout(..., 500) at the end of init().
DelayedCheck ==
  LET joined == {pid \in PresentKeys :
                   DelayedConsiders(pid, spawnedPlayers) /\ ~DelayedStale(pstate[pid], now)}
  IN /\ delayedPending
     /\ delayedPending' = FALSE
     /\ events < MaxEvents
     /\ events' = events + 1
     /\ ev' = [kind |-> "delayed", key |-> LocalKey]
     /\ spawnedPlayers' = spawnedPlayers \cup joined
     /\ fired' = {Callback("join", pid, pstate[pid]) : pid \in joined}
     /\ sinceLeave' = [k \in Keys |-> IF k \in joined THEN sinceLeave[k] + 1 ELSE sinceLeave[k]]
     /\ skipped' = skipped \cup {pid \in PresentKeys \ joined :
                                    DelayedConsiders(pid, spawnedPlayers)}
     /\ UNCHANGED <<pstate, left, arbVars, throttleVars, sessVars, beatVars, restVars>>

\* One manager whose init() has subscribed and scheduled the delayed check;
\* the transport delivers presence events in any order, with any entries.
PresenceStart ==
  /\ ArbInit /\ store = NoWorld /\ ThrottleInit /\ SessIdle /\ EnvDefault /\ BeatIdle /\ RestIdle
  /\ pstate = [k \in Keys |-> NoEntry]
  /\ spawnedPlayers = {}
  /\ delayedPending = TRUE
  /\ ev = NoEvent
  /\ fired = {}
  /\ events = 0
  /\ sinceLeave = [k \in Keys |-> 0]
  /\ skipped = {}
  /\ left = {}

NextPresence ==
  \/ \E k \in Keys : \E e \in Entries(k, now) : PresenceSet(k, e)
  \/ \E k \in Keys : PresenceRemove(k)
  \/ OnSync
  \/ \E k \in Keys : OnJoin(k)
  \/ \E k \in Keys : OnLeave(k)
  \/ DelayedCheck

SpecPresence == PresenceStart /\ [][NextPresence]_vars

\* ------------------------------------------------- init(), leave(), timers
\* The application calls init(), for the first time or again on a manager
\* whose previous init() has returned: the call awaits loadCustomizationFromDb().
InitCall(i) ==
  /\ ipc[i] = "idle"
  /\ IF i = 1 THEN TRUE ELSE ipc[i - 1] = "done"
  /\ ipc' = [ipc EXCEPT ![i] = "loading"]
  /\ UNCHANGED <<loggedIn, transportUp, lpc, channelRef, playerId, status,
                 untracks, removes, intervals, timeouts, leavesDone,
                 lateTimers, timerErrors, ret, arbVars, throttleVars, presVars, beatVars, restVars>>

\* init() from the identity to the subscribe: playerId, channel =
\* supabase.channel(...), the handlers, channel.subscribe(callback); the
\* call then awaits the promise that the callback resolves.
InitOpen(i) ==
  /\ ipc[i] = "loading"
  /\ ipc' = [ipc EXCEPT ![i] = "subscribing"]
  /\ playerId' = IF loggedIn THEN DbPlayerId ELSE GeneratePlayerId(i)
  /\ channelRef' = i
  /\ status' = [status EXCEPT ![i] = "joining"]
  /\ UNCHANGED <<loggedIn, transportUp, lpc,
                 untracks, removes, intervals, timeouts, leavesDone,
                 lateTimers, timerErrors, ret, arbVars, throttleVars, presVars, beatVars, restVars>>

\* The subscribe callback of channel c receives "SUBSCRIBED": it calls
\* channel.track(...) on the manager's channel variable and awaits it; with
\* the variable null the call throws inside the callback and the promise of
\* init() is never resolved.
Subscribed(c) ==
  /\ transportUp
  /\ status[c] = "joining"
  /\ removes[c] = 0
  /\ status' = [status EXCEPT ![c] = "SUBSCRIBED"]
  /\ ipc' = [ipc EXCEPT ![c] = IF channelRef = NoChannel THEN "stuck" ELSE "tracking"]
  /\ UNCHANGED <<loggedIn, transportUp, lpc, channelRef, playerId,
                 untracks, removes, intervals, timeouts, leavesDone,
                 lateTimers, timerErrors, ret, arbVars, throttleVars, presVars, beatVars, restVars>>

\* The subscribe callback receives another status: if (status ===
\* "SUBSCRIBED") is false and the callback returns.
SubscribeFailed(c, st) ==
  /\ status[c] = "joining"
  /\ IF st = "CLOSED" THEN TRUE ELSE removes[c] = 0
  /\ status' = [status EXCEPT ![c] = st]
  /\ UNCHANGED <<loggedIn, transportUp, ipc, lpc, channelRef, playerId,
                 untracks, removes, intervals, timeouts, leavesDone,
                 lateTimers, timerErrors, ret, arbVars, throttleVars, presVars, beatVars, restVars>>

\* The track of the callback has returned: setInterval(heartbeat, 20000),
\* resolve(); init() goes on to its 300 ms wait.
BeatStart(i) ==
  /\ ipc[i] = "tracking"
  /\ ipc' = [ipc EXCEPT ![i] = "waiting"]
  /\ intervals' = intervals \cup {[id |-> i, epoch |-> leavesDone]}
  /\ UNCHANGED <<loggedIn, transportUp, lpc, channelRef, playerId, status,
                 untracks, removes, timeouts, leavesDone,
                 lateTimers, timerErrors, ret, arbVars, throttleVars, presVars, beatVars, restVars>>

\* After the 300 ms: channel.presenceState(), a TypeError if the variable
\* is null; else the read of "worlds" is sent.
RosterSnapshot(i) ==
  /\ ipc[i] = "waiting"
  /\ ipc' = [ipc EXCEPT ![i] = IF channelRef = NoChannel THEN "threw" ELSE "fetching"]
  /\ UNCHANGED <<loggedIn, transportUp, lpc, channelRef, playerId, status,
                 untracks, removes, intervals, timeouts, leavesDone,
                 lateTimers, timerErrors, ret, arbVars, throttleVars, presVars, beatVars, restVars>>

\* The store requests have been answered: setTimeout(delayed check, 500),
\* onWorldSeedReceived, return {playerId, ...}.
InitReturn(i) ==
  /\ ipc[i] = "fetching"
  /\ ipc' = [ipc EXCEPT ![i] = "done"]
  /\ timeouts' = timeouts \cup {[id |-> i, epoch |-> leavesDone]}
  /\ ret' = [ret EXCEPT ![i] = [done |-> TRUE, playerId |-> playerId]]
  /\ UNCHANGED <<loggedIn, transportUp, lpc, channelRef, playerId, status,
                 untracks, removes, intervals, leavesDone,
                 lateTimers, timerErrors, arbVars, throttleVars, presVars, beatVars, restVars>>

\* A heartbeat interval fires: if (channel) await channel.track(...).
HeartbeatFire(h) ==
  /\ h \in intervals
  /\ lateTimers' = IF leavesDone > h.epoch
                     THEN lateTimers \cup {"heartbeat"}
                     ELSE lateTimers
  /\ UNCHANGED <<loggedIn, transportUp, ipc, lpc, channelRef, playerId, status,
                 untracks, removes, intervals, timeouts, leavesDone,
                 timerErrors, ret, arbVars, throttleVars, presVars, beatVars, restVars>>

\* A delayed-check timeout fires: channel.presenceState(), a TypeError if
\* the variable is null.
DelayedFire(d) ==
  /\ d \in timeouts
  /\ timeouts' = timeouts \ {d}
  /\ lateTimers' = IF leavesDone > d.epoch
                     THEN lateTimers \cup {"delayed"}
                     ELSE lateTimers
  /\ timerErrors' = IF channelRef = NoChannel THEN timerErrors \cup {"delayed"} ELSE timerErrors
  /\ UNCHANGED <<loggedIn, transportUp, ipc, lpc, channelRef, playerId, status,
                 untracks, removes, intervals, leavesDone,
                 ret, arbVars, throttleVars, presVars, beatVars, restVars>>

\* The application calls leave(): if (!channel) return; await
\* channel.untrack().
LeaveCall(j) ==
  /\ lpc[j] = "idle"
  /\ IF j = 1 THEN TRUE ELSE lpc[j - 1] # "idle"
  /\ IF channelRef = NoChannel
       THEN /\ lpc' = [lpc EXCEPT ![j] = "done"]
            /\ leavesDone' = leavesDone + 1
            /\ UNCHANGED untracks
       ELSE /\ lpc' = [lpc EXCEPT ![j] = "untracking"]
            /\ untracks' = [untracks EXCEPT ![channelRef] = @ + 1]
            /\ UNCHANGED leavesDone
  /\ UNCHANGED <<loggedIn, transportUp, ipc, channelRef, playerId, status,
                 removes, intervals, timeouts,
                 lateTimers, timerErrors, ret, arbVars, throttleVars, presVars, beatVars, restVars>>

\* leave() after the untrack: await supabase.removeChannel(channel), with
\* the value the variable has now.
LeaveRemove(j) ==
  /\ lpc[j] = "untracking"
  /\ lpc' = [lpc EXCEPT ![j] = "removing"]
  /\ removes' = IF channelRef = NoChannel THEN removes
                ELSE [removes EXCEPT ![channelRef] = @ + 1]
  /\ UNCHANGED <<loggedIn, transportUp, ipc, channelRef, playerId, status,
                 untracks, intervals, timeouts, leavesDone,
                 lateTimers, timerErrors, ret, arbVars, throttleVars, presVars, beatVars, restVars>>

\* leave() after the removal: channel = null; return.
LeaveReturn(j) ==
  /\ lpc[j] = "removing"
  /\ lpc' = [lpc EXCEPT ![j] = "done"]
  /\ channelRef' = NoChannel
  /\ leavesDone' = leavesDone + 1
  /\ UNCHANGED <<loggedIn, transportUp, ipc, playerId, status,
                 untracks, removes, intervals, timeouts,
                 lateTimers, timerErrors, ret, arbVars, throttleVars, presVars, beatVars, restVars>>

\* One manager, as a guest or logged in, on a transport that confirms
\* subscriptions or never does.
SessionStart ==
  /\ ArbInit /\ store = NoWorld /\ ThrottleInit /\ PresIdle /\ SessIdle /\ BeatIdle /\ RestIdle
  /\ loggedIn \in BOOLEAN
  /\ transportUp \in BOOLEAN

\* The steps the runtime takes by itself: awaited requests return, timers fire.
InitProgress(i) ==
  \/ InitOpen(i)
  \/ BeatStart(i)
  \/ RosterSnapshot(i)
  \/ InitReturn(i)

LeaveProgress(j) ==
  \/ LeaveRemove(j)
  \/ LeaveReturn(j)

TimerFire ==
  \/ \E h \in intervals : HeartbeatFire(h)
  \/ \E d \in timeouts : DelayedFire(d)

NextSession ==
  \/ \E i \in InitCalls : InitCall(i)
  \/ \E i \in InitCalls : InitProgress(i)
  \/ \E c \in InitCalls : Subscribed(c)
  \/ \E c \in InitCalls : \E st \in ErrorStatuses : SubscribeFailed(c, st)
  \/ \E j \in LeaveCalls : LeaveCall(j)
  \/ \E j \in LeaveCalls : LeaveProgress(j)
  \/ TimerFire

SpecSession == SessionStart /\ [][NextSession]_vars

\* The same with the runtime's own steps taken whenever they can be; the
\* application's calls and the transport's statuses stay free.
SpecSessionFair ==
  /\ SpecSession
  /\ \A i \in InitCalls : WF_vars(InitProgress(i))
  /\ \A j \in LeaveCalls : WF_vars(LeaveProgress(j))
  /\ WF_vars(TimerFire)

\* -------------------------------------------------------------- heartbeat
\* The remote peer whose publications are followed.
Publisher == 1

\* Heartbeat that repeats the time of the subscription.
HeartbeatEntryNoRefresh(ja, t, c) == Entry(ja, ja, c)

\* channel.track({..., playerColor, joinedAt: now, lastActive: Date.now()})
\* of the heartbeat; now is the constant of the SUBSCRIBED callback.
HeartbeatEntry(ja, t, c) == Entry(ja, t, c)

\* The peer's SUBSCRIBED callback: channel.track({..., joinedAt: now,
\* lastActive: now}), setInterval(heartbeat, 20000).
PeerSubscribed ==
  /\ hbNext = 0
  /\ hbJoinedAt' = now
  /\ hbNext' = now + HEARTBEAT_MS
  /\ pstate' = [pstate EXCEPT ![Publisher] = Entry(now, now, peerColor)]
  /\ ev' = NoEvent
  /\ fired' = {}
  /\ UNCHANGED <<peerColor, updates, spawnedPlayers, delayedPending, events, sinceLeave,
                 skipped, left, arbVars, throttleVars, sessVars, restVars>>

\* The peer's interval fires when it is due and its track reaches this manager.
PeerHeartbeat ==
  /\ hbNext # 0
  /\ now = hbNext
  /\ hbNext' = now + HEARTBEAT_MS
  /\ pstate' = [pstate EXCEPT ![Publisher] = HeartbeatEntry(hbJoinedAt, now, peerColor)]
  /\ ev' = NoEvent
  /\ fired' = {}
  /\ UNCHANGED <<hbJoinedAt, peerColor, updates, spawnedPlayers, delayedPending, events,
                 sinceLeave, skipped, left, arbVars, throttleVars, sessVars, restVars>>

\* The peer calls updatePlayerColor(c) and its track reaches this manager.
PeerUpdateColor(c) ==
  /\ hbNext # 0
  /\ updates < MaxUpdates
  /\ c # peerColor
  /\ updates' = updates + 1
  /\ peerColor' = c
  /\ pstate' = [pstate EXCEPT ![Publisher] = UpdatePlayerColor(now, c)]
  /\ ev' = NoEvent
  /\ fired' = {}
  /\ UNCHANGED <<hbJoinedAt, hbNext, spawnedPlayers, delayedPending, events,
                 sinceLeave, skipped, left, arbVars, throttleVars, sessVars, restVars>>

\* Time passes, on both peers alike, up to the moment the interval is due.
ElapseSteps == {HEARTBEAT_MS \div 2, HEARTBEAT_MS}

Elapse(d) ==
  /\ now + d <= EpochNow + HeartbeatHorizon
  /\ hbNext # 0 => now + d <= hbNext
  /\ now' = now + d
  /\ UNCHANGED <<arbVars, lastBroadcastTime, sent, dropped, calls, presVars, sessVars, beatVars, restVars>>

\* This manager has subscribed; the peer subscribes, publishes and changes
\* its colour while this manager handles sync and join events and runs its
\* delayed check.
HeartbeatStart == PresenceStart

NextHeartbeat ==
  \/ PeerSubscribed
  \/ PeerHeartbeat
  \/ \E c \in Colors : PeerUpdateColor(c)
  \/ \E d \in ElapseSteps : Elapse(d)
  \/ OnSync
  \/ pstate[Publisher].present /\ OnJoin(Publisher)
  \/ DelayedCheck

SpecHeartbeat == HeartbeatStart /\ [][NextHeartbeat]_vars

\* ------------------------------------------------ random numbers (math.js)
\* A JavaScript integer as <<hi, lo>> with value hi * 2^16 + lo and
\* 0 <= lo < 2^16; a 32-bit word has 0 <= hi < 2^16 as well.
W16 == 65536
W8 == 256

\* Two's-complement word of an integer: n | 0 and n >>> 0 have these bits.
Word(n) == <<(n \div W16) % W16, n % W16>>
\* The Number n, not reduced.
Num(n) == <<n \div W16, n % W16>>
ToUint32(a) == <<a[1] % W16, a[2]>>

RECURSIVE BitXor(_, _, _)
BitXor(a, b, n) ==
  IF n = 0 THEN 0
  ELSE ((a + b) % 2) + 2 * BitXor(a \div 2, b \div 2, n - 1)

RECURSIVE BitOr(_, _, _)
BitOr(a, b, n) ==
  IF n = 0 THEN 0
  ELSE (IF a % 2 = 1 \/ b % 2 = 1 THEN 1 ELSE 0) + 2 * BitOr(a \div 2, b \div 2, n - 1)

\* a ^ b, a | b on words
Xor32(a, b) == <<BitXor(a[1], b[1], 16), BitXor(a[2], b[2], 16)>>
Or32(a, b) == <<BitOr(a[1], b[1], 16), BitOr(a[2], b[2], 16)>>

RECURSIVE Pow2(_)
Pow2(n) == IF n = 0 THEN 1 ELSE 2 * Pow2(n - 1)

\* a >>> n for 0 < n <= 16
Shr32(a, n) ==
  <<a[1] \div Pow2(n), ((a[2] \div Pow2(n)) + (a[1] % Pow2(n)) * Pow2(16 - n)) % W16>>

\* (a + b) mod 2^32
Add32(a, b) ==
  LET lo == a[2] + b[2]
  IN  <<(a[1] + b[1] + (lo \div W16)) % W16, lo % W16>>

\* a + b as Numbers: nothing is cut off
AddNum(a, b) ==
  LET lo == a[2] + b[2]
  IN  <<a[1] + b[1] + (lo \div W16), lo % W16>>

\* Math.imul(a, b): the low 32 bits of the product, from 8-bit limbs.
Imul(a, b) ==
  LET a0 == a[2] % W8  a1 == a[2] \div W8  a2 == a[1] % W8  a3 == a[1] \div W8
      b0 == b[2] % W8  b1 == b[2] \div W8  b2 == b[1] % W8  b3 == b[1] \div W8
      p0 == a0 * b0
      p1 == a0 * b1 + a1 * b0
      p2 == a0 * b2 + a1 * b1 + a2 * b0
      p3 == a0 * b3 + a1 * b2 + a2 * b1 + a3 * b0
      low == p0 + (p1 % W8) * W8
      high == (low \div W16) + (p1 \div W8) + p2 + (p3 % W8) * W8
  IN  <<high % W16, low % W16>>

\* 0x6d2b79f5, 0x85ebca6b, 0xc2b2ae35
MulberryIncrement == <<27947, 31221>>
HashMultiplierX == <<34283, 51819>>
HashMultiplierZ == <<49842, 44597>>

\* hashPosition(seed, x, z) for integers seed, x, z
hashPosition(seed, x, z) ==
  LET ix == Word(x)
      iz == Word(z)
      h0 == Word(seed)
      h1 == Imul(Xor32(h0, ix), HashMultiplierX)
      h2 == Imul(Xor32(h1, iz), HashMultiplierZ)
  IN  Xor32(h2, Shr32(h2, 16))

\* mulberry32's closure after seed += 0x6d2b79f5: the sum is a Number and
\* is stored as it is.
MulberrySeed(seed) == AddNum(seed, MulberryIncrement)

\* The rest of the closure: t is the stored sum, every operator on it takes
\* its low 32 bits; the result is the numerator of the returned fraction.
MulberryOutput(seed) ==
  LET t0 == ToUint32(seed)
      t1 == Imul(Xor32(t0, Shr32(t0, 15)), Or32(t0, <<0, 1>>))
      t2 == Xor32(t1, Add32(t1, Imul(Xor32(t1, Shr32(t1, 7)), Or32(t1, <<0, 61>>))))
  IN  Xor32(t2, Shr32(t2, 14))

\* A generator that reads and writes the variable of another closure.
ClosureSeedShared(g, shared) == shared.state

\* The variable seed a generator's closure reads: its own parameter.
ClosureSeed(g, shared) == g.state

RandomSeeds == {0, 1, 12345}
\* (seed, x, z) of the createPositionRandom calls: one position under two
\* seeds, two positions under one seed
GeneratorInputs == {<<12345, 0, 0>>, <<12345, 1000, -1000>>, <<1, 0, 0>>}

\* createPositionRandom(seed, x, z) = mulberry32(hashPosition(seed, x, z))
CreatePositionRandom(seed, x, z) ==
  /\ Len(generators) < MaxGenerators
  /\ generators' = Append(generators,
       [seed |-> seed, x |-> x, z |-> z, state |-> hashPosition(seed, x, z), outs |-> <<>>])
  /\ UNCHANGED <<seededRandom, globalWorldSeed, draws>>
  /\ UNCHANGED <<arbVars, throttleVars, presVars, sessVars, beatVars,
                 identVars, teleVars, biomeVars, authVars>>

\* One call of the i-th generator.
GeneratorDraw(i) ==
  /\ draws < MaxDraws
  /\ LET g == generators[i]
         s == MulberrySeed(ClosureSeed(g, seededRandom))
     IN  generators' = [generators EXCEPT ![i] =
           [g EXCEPT !.state = s, !.outs = Append(g.outs, MulberryOutput(s))]]
  /\ draws' = draws + 1
  /\ UNCHANGED <<seededRandom, globalWorldSeed>>
  /\ UNCHANGED <<arbVars, throttleVars, presVars, sessVars, beatVars,
                 identVars, teleVars, biomeVars, authVars>>

\* setRandomSeed(seed)
SetRandomSeed(seed) ==
  /\ globalWorldSeed' = seed
  /\ seededRandom' = [seeded |-> TRUE, state |-> Num(seed)]
  /\ UNCHANGED <<generators, draws>>
  /\ UNCHANGED <<arbVars, throttleVars, presVars, sessVars, beatVars,
                 identVars, teleVars, biomeVars, authVars>>

\* resetRandom()
ResetRandom ==
  /\ seededRandom' = MathRandom
  /\ globalWorldSeed' = NoSeed
  /\ UNCHANGED <<generators, draws>>
  /\ UNCHANGED <<arbVars, throttleVars, presVars, sessVars, beatVars,
                 identVars, teleVars, biomeVars, authVars>>

\* randFloat, randInt, choice: one seededRandom() each.  Math.random keeps
\* no state the program can see.
GlobalDraw ==
  /\ draws < MaxDraws
  /\ seededRandom' = IF seededRandom.seeded
                       THEN [seededRandom EXCEPT !.state = MulberrySeed(seededRandom.state)]
                       ELSE seededRandom
  /\ draws' = draws + 1
  /\ UNCHANGED <<generators, globalWorldSeed>>
  /\ UNCHANGED <<arbVars, throttleVars, presVars, sessVars, beatVars,
                 identVars, teleVars, biomeVars, authVars>>

\* Everything but the random generators at rest.
RandomStart ==
  /\ ArbInit /\ store = NoWorld /\ ThrottleInit /\ PresIdle /\ SessIdle /\ EnvDefault /\ BeatIdle
  /\ IdentIdle /\ TeleIdle /\ BiomeIdle /\ AuthIdle
  /\ RandIdle

NextRandom ==
  \/ \E a \in GeneratorInputs : CreatePositionRandom(a[1], a[2], a[3])
  \/ \E i \in 1..MaxGenerators : i <= Len(generators) /\ GeneratorDraw(i)
  \/ \E seed \in RandomSeeds : SetRandomSeed(seed)
  \/ ResetRandom
  \/ GlobalDraw

SpecRandom == RandomStart /\ [][NextRandom]_vars

\* ----------------------------------------------------- biomes (constants.js)
\* const seed = getWorldSeed() || 12345: null and 0 are falsy
DefaultBiomeSeed == 12345
EffectiveSeed(seed) == IF seed = NoSeed \/ seed = 0 THEN DefaultBiomeSeed ELSE seed

\* `${n}` for an integer n, as its sequence of characters
DigitChar(d) == <<"0", "1", "2", "3", "4", "5", "6", "7", "8", "9">>[d + 1]

RECURSIVE DecimalDigits(_)
DecimalDigits(n) ==
  IF n < 10 THEN <<DigitChar(n)>> ELSE Append(DecimalDigits(n \div 10), DigitChar(n % 10))

NumberToString(n) == IF n < 0 THEN <<"-">> \o DecimalDigits(0 - n) ELSE DecimalDigits(n)

\* A key that leaves the seed out.
CacheKeyCellsOnly(seed, cellX, cellZ) == NumberToString(cellX) \o <<"_">> \o NumberToString(cellZ)

\* `${seed}_${cellX}_${cellZ}`
CacheKey(seed, cellX, cellZ) ==
  NumberToString(seed) \o <<"_">> \o NumberToString(cellX) \o <<"_">> \o NumberToString(cellZ)

\* rebuildBiomePool(weights): weights as Object.entries gives them
RECURSIVE Repeat(_, _)
Repeat(name, weight) == IF weight <= 0 THEN <<>> ELSE <<name>> \o Repeat(name, weight - 1)

RECURSIVE rebuildBiomePool(_)
rebuildBiomePool(weights) ==
  IF weights = <<>> THEN <<>>
  ELSE Repeat(weights[1][1], weights[1][2]) \o rebuildBiomePool(Tail(weights))

DEFAULT_BIOME_WEIGHTS ==
  <<<<"forest", 3>>, <<"sakura", 2>>, <<"autumn", 2>>, <<"desert", 1>>, <<"snow", 1>>>>

\* The arguments of setBiomeConfig: no config, a config without biomeWeights,
\* biomeWeights: null, and two weight objects, one of them empty.
BiomeConfigs ==
  { [given |-> FALSE, biomeWeights |-> "undefined", weights |-> <<>>],
    [given |-> TRUE, biomeWeights |-> "undefined", weights |-> <<>>],
    [given |-> TRUE, biomeWeights |-> "null", weights |-> <<>>],
    [given |-> TRUE, biomeWeights |-> "object", weights |-> <<<<"desert", 1>>, <<"snow", 1>>>>],
    [given |-> TRUE, biomeWeights |-> "object", weights |-> <<>>] }

BiomeCells == {<<0, 0>>, <<0, -1>>}

\* Math.floor(rng() * BIOME_POOL.length) for rng() = out / 2^32
BiomeIndex(out, length) == (out[1] * length + ((out[2] * length) \div W16)) \div W16

\* BIOME_POOL[biomeIndex]
PoolAt(pool, index) == IF index + 1 \in DOMAIN pool THEN pool[index + 1] ELSE "undefined"

\* The miss path of getBiomeForCell: the first value of
\* createPositionRandom(seed, cellX * 1000, cellZ * 1000) picks from the pool.
SelectBiome(seed, cellX, cellZ, pool) ==
  LET out == MulberryOutput(MulberrySeed(hashPosition(seed, cellX * 1000, cellZ * 1000)))
  IN  PoolAt(pool, BiomeIndex(out, Len(pool)))

\* biomeCache.has(key), .get(key), .set(key, value) on a set of entries
CacheHas(cache, key) == \E e \in cache : e.key = key
CacheGet(cache, key) == (CHOOSE e \in cache : e.key = key).biome
CacheSet(cache, key, biome) ==
  {e \in cache : e.key # key} \cup {[key |-> key, biome |-> biome]}

\* getBiomeForCell(cellX, cellZ)
GetBiomeForCell(cellX, cellZ) ==
  /\ lookups < MaxLookups
  /\ LET seed == EffectiveSeed(globalWorldSeed)
         cacheKey == CacheKey(seed, cellX, cellZ)
         hit == CacheHas(biomeCache, cacheKey)
         selectedBiome == IF hit THEN CacheGet(biomeCache, cacheKey)
                          ELSE SelectBiome(seed, cellX, cellZ, BIOME_POOL)
     IN  /\ biomeCache' = IF hit THEN biomeCache
                          ELSE CacheSet(biomeCache, cacheKey, selectedBiome)
         /\ lookup' = [made |-> TRUE, cellX |-> cellX, cellZ |-> cellZ,
                       hit |-> hit, biome |-> selectedBiome]
  /\ lookups' = lookups + 1
  /\ UNCHANGED BIOME_POOL
  /\ UNCHANGED <<arbVars, throttleVars, presVars, sessVars, beatVars,
                 identVars, teleVars, randVars, authVars>>

\* setBiomeConfig(config)
SetBiomeConfig(config) ==
  /\ IF ~config.given
       THEN UNCHANGED <<BIOME_POOL, biomeCache>>
       ELSE /\ BIOME_POOL' = CASE config.biomeWeights = "object" -> rebuildBiomePool(config.weights)
                               [] config.biomeWeights = "null" -> rebuildBiomePool(DEFAULT_BIOME_WEIGHTS)
                               [] OTHER -> BIOME_POOL
            /\ biomeCache' = {}
  /\ UNCHANGED <<lookup, lookups>>
  /\ UNCHANGED <<arbVars, throttleVars, presVars, sessVars, beatVars,
                 identVars, teleVars, randVars, authVars>>

\* resetBiomes()
ResetBiomes ==
  /\ biomeCache' = {}
  /\ UNCHANGED <<BIOME_POOL, lookup, lookups>>
  /\ UNCHANGED <<arbVars, throttleVars, presVars, sessVars, beatVars,
                 identVars, teleVars, randVars, authVars>>

BiomeStart ==
  /\ ArbInit /\ store = NoWorld /\ ThrottleInit /\ PresIdle /\ SessIdle /\ EnvDefault /\ BeatIdle
  /\ IdentIdle /\ TeleIdle /\ RandIdle /\ AuthIdle
  /\ BiomeIdle

NextBiome ==
  \/ \E seed \in RandomSeeds : SetRandomSeed(seed)
  \/ ResetRandom
  \/ \E config \in BiomeConfigs : SetBiomeConfig(config)
  \/ ResetBiomes
  \/ \E c \in BiomeCells : GetBiomeForCell(c[1], c[2])

SpecBiome == BiomeStart /\ [][NextBiome]_vars

\* ------------------------------------------------------ teleport broadcasts
\* A handler that does not look at the target.
TeleportAddressedAlways(payload, id) == TRUE

\* payload.targetPlayerId === playerId
TeleportAddressed(payload, id) == payload.targetPlayerId = id

\* init() of peer p up to the subscription: the channel exists (with
\* broadcast: { self: false }) and its handlers are set; playerId is p.
TeleJoin(p) ==
  /\ ~teleHandlers[p].channel
  /\ teleHandlers' = [teleHandlers EXCEPT ![p].channel = TRUE]
  /\ UNCHANGED <<teleQueue, teleFired, teleSent>>
  /\ UNCHANGED <<arbVars, throttleVars, presVars, sessVars, beatVars,
                 identVars, randVars, biomeVars, authVars>>

\* setOnTeleportRequest(callback), setOnTeleportResponse(callback)
SetOnTeleport(p, event) ==
  /\ ~teleHandlers[p][event]
  /\ teleHandlers' = [teleHandlers EXCEPT ![p][event] = TRUE]
  /\ UNCHANGED <<teleQueue, teleFired, teleSent>>
  /\ UNCHANGED <<arbVars, throttleVars, presVars, sessVars, beatVars,
                 identVars, randVars, biomeVars, authVars>>

\* broadcastTeleportRequest(targetPlayerId) and
\* broadcastTeleportResponse(targetPlayerId, ...) of peer p: the server
\* passes the message to every other peer on the channel.
BroadcastTeleport(p, event, targetPlayerId) ==
  /\ teleSent < MaxTeleports
  /\ teleSent' = teleSent + 1
  /\ IF ~teleHandlers[p].channel
       THEN UNCHANGED teleQueue
       ELSE LET payload == [event |-> event, fromPlayerId |-> p,
                            targetPlayerId |-> targetPlayerId]
            IN  teleQueue' = teleQueue \cup
                  {[to |-> q, payload |-> payload] : q \in {r \in TelePeers \ {p} : teleHandlers[r].channel}}
  /\ UNCHANGED <<teleHandlers, teleFired>>
  /\ UNCHANGED <<arbVars, throttleVars, presVars, sessVars, beatVars,
                 identVars, randVars, biomeVars, authVars>>

\* The channel.on("broadcast", ...) handler of the receiving peer.
TeleportReceive(m) ==
  /\ teleQueue' = teleQueue \ {m}
  /\ LET p == m.to
         payload == m.payload
     IN  teleFired' = [teleFired EXCEPT ![p] =
           [message |-> payload,
            callbacks |-> IF teleHandlers[p][payload.event] /\ TeleportAddressed(payload, p)
                            THEN {[peer |-> p, callback |-> payload.event, payload |-> payload]}
                            ELSE {}]]
  /\ UNCHANGED <<teleHandlers, teleSent>>
  /\ UNCHANGED <<arbVars, throttleVars, presVars, sessVars, beatVars,
                 identVars, randVars, biomeVars, authVars>>

TeleportStart ==
  /\ ArbInit /\ store = NoWorld /\ ThrottleInit /\ PresIdle /\ SessIdle /\ EnvDefault /\ BeatIdle
  /\ IdentIdle /\ RandIdle /\ BiomeIdle /\ AuthIdle
  /\ TeleIdle

NextTeleport ==
  \/ \E p \in TelePeers : TeleJoin(p)
  \/ \E p \in TelePeers, event \in TeleEvents : SetOnTeleport(p, event)
  \/ \E p \in TelePeers, event \in TeleEvents, t \in TeleTargets : BroadcastTeleport(p, event, t)
  \/ \E m \in teleQueue : TeleportReceive(m)

SpecTeleport == TeleportStart /\ [][NextTeleport]_vars

\* ------------------------------------- ShellBridge.waitForAuth (constants.js)
\* The timeout arguments of the calls: a short one and the default.
AuthTimeouts == {2000, 5000}
AuthTickMs == 1000

\* What a settled authPromise hands to every call that awaits it.
Settle(ws, value, t) ==
  [k \in DOMAIN ws |->
     IF ws[k].result = "pending"
       THEN [ws[k] EXCEPT !.result = value, !.settledAt = t]
       ELSE ws[k]]

\* waitForAuth(timeout): returns this._user when authenticated; otherwise
\* creates authPromise with its timer if there is none, and returns
\* authPromise, settled or not.
WaitForAuth(timeout) ==
  /\ Len(waits) < MaxWaits
  /\ LET call == [at |-> now, timeout |-> timeout, direct |-> isAuthenticated,
                  result |-> "pending", settledAt |-> 0]
         settled == [call EXCEPT !.settledAt = now]
     IN  IF isAuthenticated
           THEN /\ waits' = Append(waits, [settled EXCEPT !.result = "user"])
                /\ UNCHANGED <<authPromise, authResolve, authTimers>>
           ELSE IF authPromise = "null"
             THEN /\ authPromise' = "pending"
                  /\ authResolve' = TRUE
                  /\ authTimers' = authTimers \cup {now + timeout}
                  /\ waits' = Append(waits, call)
             ELSE /\ waits' = Append(waits,
                       CASE authPromise = "pending" -> call
                         [] authPromise = "user" -> [settled EXCEPT !.result = "user"]
                         [] OTHER -> [settled EXCEPT !.result = "null"])
                  /\ UNCHANGED <<authPromise, authResolve, authTimers>>
  /\ UNCHANGED <<isAuthenticated, authAt>>
  /\ UNCHANGED <<arbVars, throttleVars, presVars, sessVars, beatVars,
                 identVars, teleVars, randVars, biomeVars>>

\* _handleAuth(payload) from its last await on, for a payload with an
\* access_token and a session that was set; _checkExistingSession with a
\* session does the same.
HandleAuth ==
  /\ isAuthenticated' = TRUE
  /\ authAt' = IF isAuthenticated THEN authAt ELSE now
  /\ IF authResolve
       THEN /\ authPromise' = "user"
            /\ authResolve' = FALSE
            /\ waits' = Settle(waits, "user", now)
       ELSE UNCHANGED <<authPromise, authResolve, waits>>
  /\ UNCHANGED authTimers
  /\ UNCHANGED <<arbVars, throttleVars, presVars, sessVars, beatVars,
                 identVars, teleVars, randVars, biomeVars>>

\* The callback of the setTimeout(..., timeout) of waitForAuth.
AuthTimeout(due) ==
  /\ due <= now
  /\ authTimers' = authTimers \ {due}
  /\ IF authResolve
       THEN /\ authPromise' = "timeout"
            /\ authResolve' = FALSE
            /\ waits' = Settle(waits, "null", now)
       ELSE UNCHANGED <<authPromise, authResolve, waits>>
  /\ UNCHANGED <<isAuthenticated, authAt>>
  /\ UNCHANGED <<arbVars, throttleVars, presVars, sessVars, beatVars,
                 identVars, teleVars, randVars, biomeVars>>

\* Time passes; a timeout that is due runs first.
AuthTick ==
  /\ \A due \in authTimers : due > now
  /\ now + AuthTickMs <= EpochNow + MaxAuthElapsed
  /\ now' = now + AuthTickMs
  /\ UNCHANGED <<lastBroadcastTime, sent, dropped, calls>>
  /\ UNCHANGED <<arbVars, presVars, sessVars, beatVars, restVars>>

AuthStart ==
  /\ ArbInit /\ store = NoWorld /\ ThrottleInit /\ PresIdle /\ SessIdle /\ EnvDefault /\ BeatIdle
  /\ IdentIdle /\ TeleIdle /\ RandIdle /\ BiomeIdle
  /\ AuthIdle

NextAuth ==
  \/ \E timeout \in AuthTimeouts : WaitForAuth(timeout)
  \/ HandleAuth
  \/ \E due \in authTimers : AuthTimeout(due)
  \/ AuthTick

SpecAuth == AuthStart /\ [][NextAuth]_vars

\* ----------------------------------------- identity and customization
\* generatePlayerName() without a saved name: an adjective and an animal
RandomNames == {"HappyPanda", "BraveFox"}

\* generatePlayerName()
generatePlayerName(storage) ==
  IF storage.playerName # NoName THEN {storage.playerName} ELSE RandomNames

\* function getPlayerColor(id) of line 213: the saved colour, else a
\* colour computed from the id.  The manager declares getPlayerColor twice
\* in one function body, so this declaration is never the one called.
getPlayerColorSaved(id, color, storage) ==
  IF storage.mochiColor # NoColor THEN storage.mochiColor ELSE 1 + (id % 2)

\* function getPlayerColor() of line 796, the declaration in force: the
\* variable playerColor, whatever the argument.
getPlayerColor(id, color, storage) == color

\* loadPlayerAccessories()
loadPlayerAccessories(storage) ==
  IF storage.mochiAccessories # <<>> THEN JsonParse(storage.mochiAccessories)
  ELSE JsArray(<<>>)

\* newName.trim() on the names used here
Trim(name) == IF name = " Mochi " THEN "Mochi" ELSE name

NameInputs == {"Mochi", " Mochi ", ""}
AccessoryInputs == {JsNull, JsArray(<<>>), JsArray(<<"topHat">>)}

\* The object handed to channel.track; a timestamp the object does not
\* have is 0.
Payload(id, name, color, accessories, joinedAt, lastActive) ==
  [tracked |-> TRUE, playerId |-> id, playerName |-> name, playerColor |-> color,
   playerAccessories |-> accessories, joinedAt |-> joinedAt, lastActive |-> lastActive]

\* init() of a guest on a transport that confirms, with no other call of
\* the manager in between: identity, channel, SUBSCRIBED, first track.
IdentityInit ==
  /\ channelRef = NoChannel
  /\ \E name \in generatePlayerName(localStorage) :
       LET id == GeneratePlayerId(restarts + 1)
           color == getPlayerColor(id, playerColor, localStorage)
           accessories == loadPlayerAccessories(localStorage)
       IN  /\ playerId' = id
           /\ playerName' = name
           /\ playerColor' = color
           /\ playerAccessories' = accessories
           /\ published' = Payload(id, name, color, accessories, now, now)
  /\ channelRef' = restarts + 1
  /\ hbJoinedAt' = now
  /\ UNCHANGED <<localStorage, prior, restarts>>
  /\ UNCHANGED <<loggedIn, transportUp, ipc, lpc, status, untracks, removes, intervals,
                 timeouts, leavesDone, lateTimers, timerErrors, ret>>
  /\ UNCHANGED <<hbNext, peerColor, updates>>
  /\ UNCHANGED <<arbVars, throttleVars, presVars, teleVars, randVars, biomeVars, authVars>>

\* The heartbeat callback of the manager.
IdentityHeartbeat ==
  /\ channelRef # NoChannel
  /\ now > hbJoinedAt
  /\ published' = Payload(playerId, playerName, playerColor, playerAccessories,
                          hbJoinedAt, now)
  /\ UNCHANGED <<playerName, playerColor, playerAccessories, localStorage, prior, restarts>>
  /\ UNCHANGED <<arbVars, throttleVars, presVars, sessVars, beatVars,
                 teleVars, randVars, biomeVars, authVars>>

\* updatePlayerColor(newColor)
updatePlayerColor(newColor) ==
  /\ updates < MaxUpdates
  /\ updates' = updates + 1
  /\ playerColor' = newColor
  /\ localStorage' = [localStorage EXCEPT !.mochiColor = newColor]
  /\ published' = IF channelRef # NoChannel
                    THEN Payload(playerId, playerName, newColor, playerAccessories, now, 0)
                    ELSE published
  /\ UNCHANGED <<playerName, playerAccessories, prior, restarts>>
  /\ UNCHANGED <<hbJoinedAt, hbNext, peerColor>>
  /\ UNCHANGED <<arbVars, throttleVars, presVars, sessVars,
                 teleVars, randVars, biomeVars, authVars>>

\* updatePlayerName(newName)
updatePlayerName(newName) ==
  /\ updates < MaxUpdates
  /\ updates' = updates + 1
  /\ \E name \in (IF Trim(newName) # "" THEN {Trim(newName)} ELSE RandomNames) :
       /\ playerName' = name
       /\ localStorage' = [localStorage EXCEPT
            !.playerName = IF Trim(newName) # "" THEN name ELSE NoName]
       /\ published' = IF channelRef # NoChannel
                         THEN Payload(playerId, name, playerColor, playerAccessories, now, 0)
                         ELSE published
  /\ UNCHANGED <<playerColor, playerAccessories, prior, restarts>>
  /\ UNCHANGED <<hbJoinedAt, hbNext, peerColor>>
  /\ UNCHANGED <<arbVars, throttleVars, presVars, sessVars,
                 teleVars, randVars, biomeVars, authVars>>

\* updatePlayerAccessories(newAccessories): the variable takes
\* newAccessories || [], the payload newAccessories.
updatePlayerAccessories(newAccessories) ==
  /\ updates < MaxUpdates
  /\ updates' = updates + 1
  /\ LET kept == IF newAccessories.null THEN JsArray(<<>>) ELSE newAccessories
     IN  /\ playerAccessories' = kept
         /\ localStorage' = [localStorage EXCEPT !.mochiAccessories = JsonStringify(kept)]
  /\ published' = IF channelRef # NoChannel
                    THEN Payload(playerId, playerName, playerColor, newAccessories, now, 0)
                    ELSE published
  /\ UNCHANGED <<playerName, playerColor, prior, restarts>>
  /\ UNCHANGED <<hbJoinedAt, hbNext, peerColor>>
  /\ UNCHANGED <<arbVars, throttleVars, presVars, sessVars,
                 teleVars, randVars, biomeVars, authVars>>

\* Date.now() advances by a heartbeat period.
IdentityTick ==
  /\ now + HEARTBEAT_MS <= EpochNow + MaxIdentElapsed
  /\ now' = now + HEARTBEAT_MS
  /\ UNCHANGED <<lastBroadcastTime, sent, dropped, calls>>
  /\ UNCHANGED <<arbVars, presVars, sessVars, beatVars, restVars>>

\* The page is loaded again: a new manager from createMultiplayerManager,
\* the same localStorage.
PageReload ==
  /\ channelRef # NoChannel
  /\ restarts < MaxRestarts
  /\ restarts' = restarts + 1
  /\ prior' = [known |-> TRUE, updated |-> updates > 0, playerId |-> playerId,
               playerName |-> playerName, playerColor |-> playerColor,
               playerAccessories |-> playerAccessories]
  /\ playerId' = 0
  /\ playerName' = NoName
  /\ playerColor' = NoColor
  /\ playerAccessories' = JsArray(<<>>)
  /\ published' = NoPayload
  /\ channelRef' = NoChannel
  /\ hbJoinedAt' = 0
  /\ UNCHANGED localStorage
  /\ UNCHANGED <<loggedIn, transportUp, ipc, lpc, status, untracks, removes, intervals,
                 timeouts, leavesDone, lateTimers, timerErrors, ret>>
  /\ UNCHANGED <<hbNext, peerColor, updates>>
  /\ UNCHANGED <<arbVars, throttleVars, presVars, teleVars, randVars, biomeVars, authVars>>

IdentityStart ==
  /\ ArbInit /\ store = NoWorld /\ ThrottleInit /\ PresIdle /\ SessIdle /\ EnvDefault /\ BeatIdle
  /\ TeleIdle /\ RandIdle /\ BiomeIdle /\ AuthIdle
  /\ IdentIdle

NextIdentity ==
  \/ IdentityInit
  \/ IdentityHeartbeat
  \/ \E c \in Colors : updatePlayerColor(c)
  \/ \E n \in NameInputs : updatePlayerName(n)
  \/ \E a \in AccessoryInputs : updatePlayerAccessories(a)
  \/ IdentityTick
  \/ PageReload

SpecIdentity == IdentityStart /\ [][NextIdentity]_vars

\* ------------------------------------------------------------ properties
Started == {p \in Peers : pc[p] # "idle"}
Finished(p) == returned[p].done
Hosts == {p \in Peers : Finished(p) /\ returned[p].isHost}

\* C1: two peers run init() concurrently on a room without a row, the store
\* answering every request: when both have finished, exactly one of them is
\* host and both hold the seed of the stored row.
C1_RaceOneHostOneSeed ==
  ( /\ store0 = NoWorld
    /\ faults = 0
    /\ Cardinality(Started) = 2
    /\ \A p \in Started : Finished(p) )
  => /\ Cardinality(Hosts) = 1
     /\ store.exists
     /\ \A p \in Started : returned[p].worldSeed = store.seed

\* Both read before either inserted; the second insert was rejected and that
\* peer re-read the row, which holds another seed than the one it generated.
C1_Witness ==
  /\ store0 = NoWorld
  /\ faults = 0
  /\ Cardinality(Started) = 2
  /\ \A p \in Started : Finished(p)
  /\ \E p \in Started : /\ insertError[p] = "conflict"
                         /\ raceWorld[p].exists
                         /\ genSeed[p] # store.seed

\* C2: once the row's owner_player_id is set it never changes.
C2_OwnerSetOnce ==
  [][(store.exists /\ store.owner # NoOwner) => store'.owner = store.owner]_vars

\* C3: with every store request answered, at most one peer finishes init()
\* with isHost = true.
C3_AtMostOneHost == faults = 0 => Cardinality(Hosts) <= 1

\* C4: every peer that has finished init() holds the seed of the stored row.
C4_FinishedHoldStoredSeed ==
  \A p \in Peers : Finished(p) => (store.exists /\ returned[p].worldSeed = store.seed)

\* C5: the seed of an existing row never changes (and the row stays).
C5_SeedNeverChanges ==
  [][store.exists => (store'.exists /\ store'.seed = store.seed)]_vars

\* An unowned row was claimed by one peer, and another peer, whose read had
\* failed, sent an insert with another seed, which was rejected.
C5_Witness ==
  /\ store0.exists
  /\ store0.owner = NoOwner
  /\ store.owner # NoOwner
  /\ \E p \in Peers : /\ insertError[p] = "conflict"
                       /\ genSeed[p] # store.seed

\* C6: with every store request answered, a peer that finished init() with
\* isHost = true is the owner the stored row names.
C6_HostIsStoredOwner ==
  faults = 0 =>
    \A p \in Peers : (Finished(p) /\ returned[p].isHost) => (store.exists /\ store.owner = p)

\* C7: a peer that read an existing row not owned by it, with another peer in
\* its roster snapshot, finishes with isHost = false and has sent no write.
C7_PopulatedRoomNeverHost ==
  \A p \in Peers :
    ( /\ pc[p] \in {"claim", "notify", "done"}
      /\ existingWorld[p].exists
      /\ otherPlayers[p] > 0
      /\ existingWorld[p].owner # p )
    => /\ ~isHost[p]
       /\ writes[p] = 0
       /\ pc[p] # "claim"
       /\ Finished(p) => ~returned[p].isHost

\* A peer finished after reading an unowned row with another peer in its roster.
C7_Witness ==
  \E p \in Peers :
    /\ Finished(p)
    /\ existingWorld[p].exists
    /\ existingWorld[p].owner = NoOwner
    /\ otherPlayers[p] > 0

\* C8: an init() whose read failed with another error than "not found", or
\* whose insert failed for another reason than the existing row, does not
\* complete normally, and a failed read never leads into the create branch.
C8_StoreErrorsSurfaced ==
  \A p \in Peers :
    /\ (fetchError[p] = "other" \/ insertError[p] = "other") => ~Finished(p)
    /\ fetchError[p] = "other" => pc[p] \notin {"insert", "reread"}

LastSent(p) == sent[p][Len(sent[p])]
DueAt(p) == Len(sent[p]) = 0 \/ now - LastSent(p) >= 50

C10_CallStep(p) ==
  IF calls'[p] = calls[p] + 1 /\ channel[p]
    THEN IF DueAt(p)
           THEN /\ sent'[p] = Append(sent[p], now)
                /\ lastBroadcastTime'[p] = now
                /\ dropped'[p] = dropped[p]
           ELSE /\ sent'[p] = sent[p]
                /\ lastBroadcastTime'[p] = lastBroadcastTime[p]
                /\ dropped'[p] = dropped[p] + 1
    ELSE /\ sent'[p] = sent[p]
         /\ lastBroadcastTime'[p] = lastBroadcastTime[p]

C10_SendsSpaced(p) ==
  /\ \A i \in 1..(Len(sent[p]) - 1) : sent[p][i + 1] - sent[p][i] >= 50
  /\ Len(sent[p]) + dropped[p] <= calls[p]

C10_Throttle ==
  /\ [][\A p \in Peers : C10_CallStep(p)]_vars
  /\ [](\A p \in Peers : C10_SendsSpaced(p))

\* Three calls: one sent, one inside the window dropped, one sent exactly
\* 50 ms after the first.
C10_Witness ==
  \E p \in Peers :
    /\ Len(sent[p]) = 2
    /\ sent[p][2] - sent[p][1] = 50
    /\ dropped[p] = 1
    /\ calls[p] = 3

\* ------------------------------------------------- properties: presence
\* The last activity an entry shows: lastActive, or joinedAt for an entry
\* without lastActive (0 if it has neither).
LastActivity(e) == IF e.lastActive # 0 THEN e.lastActive ELSE e.joinedAt

Outdated(e) == now - LastActivity(e) > STALE_THRESHOLD

MaxStamp(e) == IF e.lastActive >= e.joinedAt THEN e.lastActive ELSE e.joinedAt

HandlerStep(kind) == events' = events + 1 /\ ev'.kind = kind

CallbacksFor(k, cbs) == {c \in cbs : c.key = k}

\* The remote keys whose entry the handler of this step tests for staleness.
Tested(k) ==
  \/ HandlerStep("sync") /\ pstate[k].present
  \/ HandlerStep("join") /\ ev'.key = k /\ k \notin spawnedPlayers
  \/ HandlerStep("delayed") /\ pstate[k].present /\ k \notin spawnedPlayers

\* C11: no step of the sync handler, the join handler or the delayed check
\* calls onPlayerJoin for, or adds to spawnedPlayers, a remote key whose
\* entry shows its last activity more than 300000 ms before now.
C11_StaleNeverJoins ==
  [][\A k \in Remotes :
       Outdated(pstate[k]) =>
         /\ k \in spawnedPlayers' => k \in spawnedPlayers
         /\ \A c \in CallbacksFor(k, fired') : c.cb # "join"]_vars

C11_Witness ==
  /\ ev.kind = "sync"
  /\ \E k \in Remotes :
       /\ pstate[k].present /\ pstate[k].lastActive = now - STALE_THRESHOLD - 1
       /\ k \notin spawnedPlayers /\ k \in skipped

C13_JoinOncePerStay ==
  [][\A k \in Remotes :
       /\ sinceLeave'[k] <= 1
       /\ (Tested(k) /\ k \in skipped /\ ~Outdated(pstate[k])) => sinceLeave'[k] = 1]_vars

C13_Witness ==
  \E k \in Remotes :
    /\ k \in skipped /\ k \notin left
    /\ sinceLeave[k] = 1
    /\ Callback("join", k, pstate[k]) \in fired

\* C14: a sync whose state holds an already spawned remote key with a
\* non-stale entry calls onPlayerPresenceUpdate(key, entry) with the entry
\* now in the state, and no other callback for that key (the loop of the
\* handler visits every key once); so it is after updatePlayerColor.
C14_SyncUpdatesKnownPeer ==
  [][\A k \in Remotes :
       (HandlerStep("sync") /\ k \in spawnedPlayers
          /\ pstate[k].present /\ ~Outdated(pstate[k]))
         => /\ CallbacksFor(k, fired') = {Callback("update", k, pstate[k])}
            /\ sinceLeave'[k] = sinceLeave[k]]_vars

C14_Witness ==
  /\ ev.kind = "sync"
  /\ \E k \in Remotes :
       /\ pstate[k] = UpdatePlayerColor(now, 2)
       /\ fired = {Callback("update", k, UpdatePlayerColor(now, 2))}

\* C15: a leave event for a remote key takes the key out of spawnedPlayers
\* and calls onPlayerLeave(key) in the same step, whatever its entry; a
\* sync or join event that then tests a fresh entry of the key calls
\* onPlayerJoin(key, entry) again.
C15_LeaveThenRejoin ==
  [][\A k \in Remotes :
       /\ (HandlerStep("leave") /\ ev'.key = k)
            => /\ k \notin spawnedPlayers'
               /\ fired' = {Callback("leave", k, NoEntry)}
       /\ ((HandlerStep("sync") \/ HandlerStep("join")) /\ Tested(k)
              /\ sinceLeave[k] = 0 /\ ~Outdated(pstate[k]))
            => Callback("join", k, pstate[k]) \in fired']_vars

C15_Witness ==
  /\ ev.kind \in {"sync", "join"}
  /\ \E k \in Remotes :
       /\ k \in left /\ sinceLeave[k] = 1
       /\ Callback("join", k, pstate[k]) \in fired

\* ----------------------------------------------- properties: life cycle
\* C16: once a leave() has returned, no heartbeat interval and no delayed
\* check set before it runs its callback any more, and no timer callback
\* fails on the missing channel.
C16_NoTimerAfterLeave == lateTimers = {} /\ timerErrors = {}

\* C17: leave() may be called at any time and any number of times: a call
\* before the subscription is confirmed does nothing to the channel, no
\* channel is untracked or removed twice, and no init() in progress fails
\* or hangs on the channel variable having become null.
C17_LeaveSafeAnyTime ==
  /\ \A c \in InitCalls : untracks[c] <= 1 /\ removes[c] <= 1
  /\ \A c \in InitCalls : status[c] = "joining" => untracks[c] = 0 /\ removes[c] = 0
  /\ \A i \in InitCalls : ipc[i] \notin {"threw", "stuck"}

\* C18: while leave() has not been called, a second init() opens no second
\* channel, sets no second heartbeat, leaves playerId as it is and returns
\* what the first call returned.
C18_InitIdempotent ==
  (\A j \in LeaveCalls : lpc[j] = "idle") =>
    /\ Cardinality({c \in InitCalls : status[c] # "none"}) <= 1
    /\ Cardinality(intervals) <= 1
    /\ ret[1].done => playerId = ret[1].playerId
    /\ \A i \in InitCalls : ret[i].done => ret[i] = ret[1]

\* C19: an init() that waits for a subscription the transport never
\* confirms ends with an error.  (The code schedules nothing for such a
\* call: its promise has no reject, no timer and no branch for another
\* status, so the call rests at the await.)
C19_InitFailsUnconfirmed ==
  \A i \in InitCalls : (ipc[i] = "subscribing" /\ ~transportUp) ~> (ipc[i] = "threw")

\* ------------------------------------------------ properties: heartbeat
\* C20: every 20000 ms after its subscription the peer publishes its entry
\* again with lastActive = Date.now() and its current attributes, changed
\* or not; with each publication delivered, no sync event, join event or
\* delayed check of a manager with the same clock skips the peer as stale,
\* colour changes included.
C20_HeartbeatKeepsFresh ==
  [][/\ Publisher \notin skipped'
     /\ (hbNext # 0 /\ hbNext' # hbNext)
          => /\ now = hbNext
             /\ hbNext' = hbNext + HEARTBEAT_MS
             /\ pstate'[Publisher] = Entry(hbJoinedAt, now, peerColor)]_vars

C20_Witness ==
  /\ now > hbJoinedAt + STALE_THRESHOLD
  /\ hbJoinedAt # 0
  /\ updates > 0
  /\ ev.kind = "sync"
  /\ Callback("update", Publisher, pstate[Publisher]) \in fired

\* --------------------------------------- properties: order and pairing
\* C26: in every init() the first track follows the status SUBSCRIBED, the
\* roster snapshot and the store read follow the end of that track, and
\* the return follows the end of the arbitration and of the roster
\* reconciliation that init() starts (its delayed check).
C26_InitStepsInOrder ==
  \A i \in InitCalls :
    /\ ipc[i] \in {"tracking", "waiting", "fetching", "done"} => status[i] = "SUBSCRIBED"
    /\ ipc[i] \in {"fetching", "done"} => \E h \in intervals : h.id = i
    /\ ret[i].done => ipc[i] = "done" /\ ~(\E d \in timeouts : d.id = i)

\* C28: a leave event calls onPlayerLeave(key) only for a remote key that
\* onPlayerJoin reported and that no leave event has reported since.
C28_LeaveOnlyAfterJoin ==
  [][\A k \in Remotes :
       (HandlerStep("leave") /\ Callback("leave", k, NoEntry) \in fired')
         => sinceLeave[k] = 1]_vars

\* C29: a manager never has two heartbeat intervals set.
C29_OneHeartbeatTimer == Cardinality(intervals) <= 1

\* ------------------------------------------ properties: random generators
\* The first n outputs of a generator whose 32-bit state is s, every step
\* in arithmetic modulo 2^32.
RECURSIVE WrappedOutputs(_, _)
WrappedOutputs(s, n) ==
  IF n = 0 THEN <<>>
  ELSE LET s1 == Add32(s, MulberryIncrement)
       IN  <<MulberryOutput(s1)>> \o WrappedOutputs(s1, n - 1)

RECURSIVE WrappedState(_, _)
WrappedState(s, n) ==
  IF n = 0 THEN s ELSE WrappedState(Add32(s, MulberryIncrement), n - 1)

IsWord(a) == a[1] \in 0..(W16 - 1) /\ a[2] \in 0..(W16 - 1)

\* C25 (as stated): the outputs of a generator of createPositionRandom are
\* those of 32-bit wraparound arithmetic from hashPosition(seed, x, z) alone,
\* whatever else was created, drawn, seeded or reset, every output is below
\* 2^32, and every step, the stored accumulator included, is an unsigned
\* 32-bit value.
C25_EveryStepWraps ==
  \A i \in 1..Len(generators) :
    LET g == generators[i]
        h == hashPosition(g.seed, g.x, g.z)
    IN  /\ g.outs = WrappedOutputs(h, Len(g.outs))
        /\ \A k \in 1..Len(g.outs) : IsWord(g.outs[k])
        /\ g.state = WrappedState(h, Len(g.outs))

\* C25 (amended): the outputs are those of 32-bit wraparound arithmetic
\* from hashPosition(seed, x, z) alone, so two generators with the same
\* (seed, x, z) agree on every output both have produced, and every output
\* is below 2^32; the accumulator is the unreduced sum hash + n * 0x6d2b79f5,
\* congruent modulo 2^32 to the wrapped one.
C25_SameInputsSameOutputs ==
  /\ \A i \in 1..Len(generators) :
       LET g == generators[i]
           h == hashPosition(g.seed, g.x, g.z)
       IN  /\ g.outs = WrappedOutputs(h, Len(g.outs))
           /\ \A k \in 1..Len(g.outs) : IsWord(g.outs[k])
           /\ ToUint32(g.state) = WrappedState(h, Len(g.outs))
  /\ \A i, j \in 1..Len(generators) :
       LET g == generators[i]
           f == generators[j]
       IN  (g.seed = f.seed /\ g.x = f.x /\ g.z = f.z)
             => \A k \in 1..Len(g.outs) : k <= Len(f.outs) => g.outs[k] = f.outs[k]

\* Two generators for (12345, 0, 0), drawn from in turn with a seeded global
\* generator drawn from in between; the second has its first outputs
\* 0xc8e30dfd, 0x145b4941, and the first holds an accumulator above 2^32.
C25_Witness ==
  /\ Len(generators) = 2
  /\ generators[1].seed = 12345 /\ generators[1].x = 0 /\ generators[1].z = 0
  /\ generators[2].seed = 12345 /\ generators[2].x = 0 /\ generators[2].z = 0
  /\ generators[1].outs = <<<<51427, 3581>>>>
  /\ generators[2].outs = <<<<51427, 3581>>, <<5211, 18753>>>>
  /\ generators[2].state[1] >= W16
  /\ seededRandom.seeded /\ seededRandom.state # Num(globalWorldSeed)

\* ------------------------------------------------------ properties: biomes
\* C27: whatever setRandomSeed, resetRandom, setBiomeConfig, resetBiomes
\* calls and lookups came before, getBiomeForCell returns for a cell the
\* biome that the computation without the cache gives for the current
\* seed, the current pool and that cell.
C27_CacheTransparent ==
  [][lookups' # lookups
       => lookup'.biome = SelectBiome(EffectiveSeed(globalWorldSeed),
                                      lookup'.cellX, lookup'.cellZ, BIOME_POOL)]_vars

\* A lookup answered from the cache, under a pool set by setBiomeConfig
\* (the default pool gives desert for this cell) and with entries of two
\* seeds in the cache.
C27_Witness ==
  /\ lookup.made /\ lookup.hit
  /\ lookup.cellX = 0 /\ lookup.cellZ = 0
  /\ lookup.biome = "snow"
  /\ globalWorldSeed = NoSeed
  /\ BIOME_POOL = <<"desert", "snow">>
  /\ CacheHas(biomeCache, CacheKey(1, 0, 0))
  /\ CacheGet(biomeCache, CacheKey(1, 0, 0)) = "desert"
  /\ CacheHas(biomeCache, CacheKey(12345, 0, 0))

\* -------------------------------------------- properties: teleport
\* C24: when a peer with its teleport callbacks set receives a
\* teleport_request or teleport_response, the callback of that event is
\* invoked with the payload if and only if the payload's targetPlayerId is
\* the peer's playerId; no other callback is invoked, and none on a peer
\* that is not addressed.
C24_OnlyAddressedPeerFires ==
  [][\A m \in teleQueue :
       m \notin teleQueue'
         => LET p == m.to
                cb == [peer |-> p, callback |-> m.payload.event, payload |-> m.payload]
            IN  /\ teleFired'[p].callbacks \subseteq {cb}
                /\ teleHandlers[p][m.payload.event]
                     => (cb \in teleFired'[p].callbacks <=> m.payload.targetPlayerId = p)
                /\ m.payload.targetPlayerId # p => teleFired'[p].callbacks = {}
                /\ \A q \in TelePeers \ {p} : teleFired'[q] = teleFired[q]]_vars

\* A request of peer 1 to peer 2 has reached peers 2 and 3, both with the
\* callback set: it was invoked on peer 2 and not on peer 3.
C24_Witness ==
  LET payload == [event |-> "teleport_request", fromPlayerId |-> 1, targetPlayerId |-> 2]
  IN  /\ teleHandlers[2].teleport_request /\ teleHandlers[3].teleport_request
      /\ teleFired[2] = [message |-> payload,
                         callbacks |-> {[peer |-> 2, callback |-> "teleport_request",
                                         payload |-> payload]}]
      /\ teleFired[3] = [message |-> payload, callbacks |-> {}]

\* ------------------------------------------------ properties: waitForAuth
\* C30: every waitForAuth(timeout) call made while unauthenticated gets
\* the user if the auth message is handled less than timeout ms after the
\* call, and gets null only when timeout ms have passed since the call,
\* also when an earlier call has timed out before.
C30_WaitHonoursOwnTimeout ==
  \A k \in 1..Len(waits) :
    LET w == waits[k]
    IN  ~w.direct
          => /\ w.result = "null" => w.settledAt >= w.at + w.timeout
             /\ (authAt # 0 /\ authAt < w.at + w.timeout) => w.result = "user"

\* ---------------------------------------------- properties: identity
\* C21: what a joined manager has published last (by an update, a
\* heartbeat or the first track) carries the manager's current name,
\* colour and accessories: every update re-publishes the new value with
\* the other fields, and nothing later reverts or drops it.
C21_PublishedEqualsLocal ==
  published.tracked
    => /\ published.playerId = playerId
       /\ published.playerName = playerName
       /\ published.playerColor = playerColor
       /\ published.playerAccessories = playerAccessories

\* C22: a new manager on the same localStorage (no database row) that has
\* run init() has the playerId, colour, name and accessories that the
\* manager before it had after its updates.
C22_IdentityRoundTrip ==
  (prior.known /\ prior.updated /\ channelRef # NoChannel)
    => /\ playerId = prior.playerId
       /\ playerColor = prior.playerColor
       /\ playerName = prior.playerName
       /\ playerAccessories = prior.playerAccessories

\* C23: every published payload has joinedAt and lastActive, with
\* lastActive >= joinedAt.
C23_LastActiveNotBeforeJoinedAt ==
  published.tracked
    => /\ published.joinedAt # 0
       /\ published.lastActive # 0
       /\ published.lastActive >= published.joinedAt

====
